---- MODULE Spec2Model ----
(***************************************************************************)
(* Model of the web3-functions runtime: the Web3FunctionRunner supervisor  *)
(* (src/lib/runtime/Web3FunctionRunner.ts) and the Web3Function guest      *)
(* agent (src/lib/Web3Function.ts).                                        *)
(*                                                                         *)
(* Time is counted in units of 100 ms (the grace delay of the exit         *)
(* handler).  A pending timer fires when its deadline is reached; time     *)
(* does not advance past the deadline of a pending timer.                  *)
(***************************************************************************)
EXTENDS Integers, FiniteSets, Sequences, TLC

\* ------------------------------------------------------------------ bounds
MaxTime == 1
MaxTimeout == 2
MaxMemory == 2
MaxClientErrors == 1
\* storage.set / storage.delete calls of one handler invocation
MaxCalls == 2
\* entries of a V2 callData array
MaxEntries == 2
\* value of a counter of the HTTP proxy
MaxStat == 1
\* length of an array user arg
MaxArgLen == 2
\* number of HTTP requests, of RPC calls and of log lines of a guest
MaxTraffic == 2

\* ------------------------------------------------------- program constants
\* delay(100) of the exit handler, in time units of 100 ms
GRACE_DELAY == 1
\* bytes of a KB: the download and upload limits are divided by it
KB == 1024

\* -------------------------------------------------------------- value sets
Runtimes == {"thread", "docker"}
Versions == {"V1", "V2"}
\* options.timeout: the grace delay, and longer than it
Timeouts == {GRACE_DELAY, MaxTimeout}
\* a memory sample at the cap options.memory; without one _memory is 0
MemorySamples == {MaxMemory}
NotEnded == -1
\* exit codes a guest process can end with by itself
CrashCodes == {0, 1, 137, 250}
\* exit codes of a guest process killed by sandbox.stop()
KillCodes == {137}

\* --------------------------------------------------------------- JS values
\* A value of a result: its type and its content.  A string is the sequence
\* of its characters, an array the sequence of its elements, an object the
\* record of the properties to, data and value; JAbsent is a property the
\* object does not have.
JAbsent == [t |-> "absent", v |-> <<>>]
JNull == [t |-> "null", v |-> <<>>]
JNone == [t |-> "none", v |-> <<>>]
JBool(b) == [t |-> "boolean", v |-> b]
JNum(n) == [t |-> "number", v |-> n]
JStr(s) == [t |-> "string", v |-> s]
JArr(a) == [t |-> "array", v |-> a]
JObj(to, data, value) == [t |-> "object", v |-> [to |-> to, data |-> data, value |-> value]]

Digits == {"0", "1", "2", "3", "4", "5", "6", "7", "8", "9"}
HexDigits == Digits \cup {"a", "b", "c", "d", "e", "f"}

\* "0x" followed by n characters "a"
HexData(n) == <<"0", "x">> \o [i \in 1..n |-> "a"]

\* the address 0x0000000000000000000000000000000000000001
AddressOne == <<"0", "x">> \o [i \in 1..39 |-> "0"] \o <<"1">>

\* the truthiness of a value in a condition
Truthy(val) ==
    CASE val.t = "boolean" -> val.v
      [] val.t = "number" -> val.v # 0
      [] val.t = "string" -> Len(val.v) > 0
      [] val.t \in {"array", "object"} -> TRUE
      [] OTHER -> FALSE

\* String(n) for a natural number
DecimalString(n) ==
    LET digit == <<"0", "1", "2", "3", "4", "5", "6", "7", "8", "9">>
        RECURSIVE str(_)
        str(m) == IF m < 10 THEN <<digit[m + 1]>> ELSE str(m \div 10) \o <<digit[(m % 10) + 1]>>
    IN str(n)

\* the string a regular expression tests a value as (a string or a number)
AsString(val) ==
    CASE val.t = "string" -> val.v
      [] val.t = "number" -> DecimalString(val.v)
      [] OTHER -> <<"n", "u", "l", "l">>

NoError == [name |-> "none", runtimeError |-> FALSE, throttledReason |-> "none", code |-> NotEnded]
NoResult == [canExec |-> JNone, callData |-> JNone]

\* results the user handler returns to run(): { canExec: false }, which is
\* valid for both versions, and { canExec: true }, which misses callData
HandlerResults == {[canExec |-> JBool(FALSE), callData |-> JAbsent], [canExec |-> JBool(TRUE), callData |-> JAbsent]}

\* error raised by the user handler and replied as { name, message }
GuestError == [name |-> "guest", runtimeError |-> FALSE, throttledReason |-> "none", code |-> NotEnded]

PlainError(n) == [name |-> n, runtimeError |-> FALSE, throttledReason |-> "none", code |-> NotEnded]

\* new Web3FunctionRuntimeError(message, throttledReason)
Web3FunctionRuntimeError(reason, c) == [name |-> "runtime", runtimeError |-> TRUE, throttledReason |-> reason, code |-> c]

\* ------------------------------------------- validateUserArgs, parseUserArgs
\* the numbers NaN and Infinity
JNaN == [t |-> "NaN", v |-> <<>>]
JInfinity == [t |-> "Infinity", v |-> <<>>]

\* typeof val
typeof(val) ==
    CASE val.t = "boolean" -> "boolean"
      [] val.t \in {"number", "NaN", "Infinity"} -> "number"
      [] val.t = "string" -> "string"
      [] val.t \in {"absent", "none"} -> "undefined"
      [] OTHER -> "object"

\* the types of a user args schema, and one that is none
ArgTypes == {"boolean", "number", "string", "boolean[]", "number[]", "string[]"}
SchemaTypes == ArgTypes \cup {"object"}

\* type.slice(0, -2) of validateUserArgs and type.split("[]")[0] of
\* parseUserArgs, for an array type
ItemType(type) ==
    CASE type = "boolean[]" -> "boolean"
      [] type = "number[]" -> "number"
      [] type = "string[]" -> "string"
      [] OTHER -> type

\* type.split("[]").length > 1
IsArrayType(type) == type \in {"boolean[]", "number[]", "string[]"}

\* validateUserArgs for one key of the schema: "returns" or "throws"
validateUserArgs(type, value) ==
    IF typeof(value) = "undefined" THEN "throws"
    ELSE IF type \in {"boolean", "string", "number"}
         THEN IF typeof(value) # type THEN "throws" ELSE "returns"
    ELSE IF type \in {"boolean[]", "string[]", "number[]"}
         THEN IF \/ value.t # "array"
                 \/ \E i \in 1..Len(value.v) : typeof(value.v[i]) # ItemType(type)
              THEN "throws"
              ELSE "returns"
    ELSE "throws"

\* JSON.stringify(val): the JSON text, as the tree of its tokens.  NaN and
\* Infinity are written as null.
RECURSIVE JSONstringify(_)
JSONstringify(val) ==
    CASE val.t = "boolean" -> [j |-> IF val.v THEN "true" ELSE "false", v |-> <<>>]
      [] val.t = "number" -> [j |-> "number", v |-> DecimalString(val.v)]
      [] val.t = "string" -> [j |-> "string", v |-> val.v]
      [] val.t = "array" -> [j |-> "array", v |-> [i \in 1..Len(val.v) |-> JSONstringify(val.v[i])]]
      [] OTHER -> [j |-> "null", v |-> <<>>]

\* the number a string of decimal digits denotes
RECURSIVE DecimalNumber(_)
DecimalNumber(str) ==
    IF str = <<>> THEN 0
    ELSE 10 * DecimalNumber(SubSeq(str, 1, Len(str) - 1))
            + (CHOOSE d \in 0..9 : DecimalString(d) = <<str[Len(str)]>>)

\* JSON.parse(text)
RECURSIVE JSONparse(_)
JSONparse(text) ==
    CASE text.j = "true" -> JBool(TRUE)
      [] text.j = "false" -> JBool(FALSE)
      [] text.j = "number" -> JNum(DecimalNumber(text.v))
      [] text.j = "string" -> JStr(text.v)
      [] text.j = "array" -> JArr([i \in 1..Len(text.v) |-> JSONparse(text.v[i])])
      [] OTHER -> JNull

\* how validateUserArgs ended, and how parseUserArgs ended and what it
\* returned
NoArgOutcome == [validated |-> "none", parsed |-> "none", typed |-> JNone]

\* parseUserArgs for one key of the schema and the JSON text of its value
parseUserArgs(type, text) ==
    LET parsedValue == JSONparse(text)
    IN IF \/ /\ IsArrayType(type)
             /\ \/ parsedValue.t # "array"
                \/ \E i \in 1..Len(parsedValue.v) : typeof(parsedValue.v[i]) # ItemType(type)
          \/ ~IsArrayType(type) /\ typeof(parsedValue) # ItemType(type)
       THEN [parsed |-> "throws", typed |-> JNone]
       ELSE [parsed |-> "returns", typed |-> parsedValue]

\* ------------------------------------------------------- _validateResult
\* how a call of _validateResult ends: it returns, or it throws the error
\* of throwError, whose message ends with JSON.stringify(result), or it
\* throws a TypeError
Returns == [kind |-> "returns", message |-> "", instead |-> NoResult]
NotCalled == [kind |-> "none", message |-> "", instead |-> NoResult]
TypeError == [kind |-> "TypeError", message |-> "", instead |-> NoResult]
throwError(message, result) == [kind |-> "Error", message |-> message, instead |-> result]

\* data.length: undefined for a value that has none, a TypeError for
\* undefined and null
HasLength(data) == data.t \in {"string", "array"}

\* isValidData(data): "TypeError" when reading data.length throws
isValidData(data) ==
    IF data.t \in {"absent", "null"} THEN "TypeError"
    ELSE IF /\ HasLength(data)
            /\ Len(data.v) >= 10
            /\ data.t = "string"
            /\ SubSeq(data.v, 1, 2) = <<"0", "x">>
         THEN "true"
    ELSE "false"

\* isAddress(to) of @ethersproject/address for lower-case input: 40
\* hexadecimal digits, with or without the prefix 0x
isAddress(to) ==
    /\ to.t = "string"
    /\ LET hex == IF Len(to.v) >= 2 /\ SubSeq(to.v, 1, 2) = <<"0", "x">>
                  THEN SubSeq(to.v, 3, Len(to.v))
                  ELSE to.v
       IN Len(hex) = 40 /\ \A i \in 1..Len(hex) : hex[i] \in HexDigits

\* /^\d+$/.test(value)
isNumericString(value) ==
    LET str == AsString(value)
    IN Len(str) > 0 /\ \A i \in 1..Len(str) : str[i] \in Digits

\* `if (value)`
HasValue(value) == Truthy(value)

\* the body of `for (const { to, data, value } of result.callData)` for one
\* entry: what it throws, or Returns
ValidateEntry(entry, result) ==
    IF entry.t \in {"absent", "null"} THEN TypeError
    ELSE LET to == IF entry.t = "object" THEN entry.v.to ELSE JAbsent
             data == IF entry.t = "object" THEN entry.v.data ELSE JAbsent
             value == IF entry.t = "object" THEN entry.v.value ELSE JAbsent
         IN IF ~isAddress(to) THEN throwError("returned invalid to address", result)
            ELSE IF isValidData(data) = "TypeError" THEN TypeError
            ELSE IF isValidData(data) = "false" THEN throwError("returned invalid callData", result)
            ELSE IF HasValue(value) /\ ~isNumericString(value)
                 THEN throwError("returned invalid value (must be numeric string)", result)
            ELSE Returns

\* the loop over result.callData: the first entry that throws ends it
RECURSIVE ValidateEntries(_, _, _)
ValidateEntries(callData, i, result) ==
    IF i > Len(callData) THEN Returns
    ELSE IF ValidateEntry(callData[i], result).kind # "returns"
         THEN ValidateEntry(callData[i], result)
    ELSE ValidateEntries(callData, i + 1, result)

\* a validator that asks for callData whenever canExec is a key
NeedsCallData_always(canExec) == canExec.t # "absent"

\* `result.canExec &&`
NeedsCallData(canExec) == Truthy(canExec)

_validateResult(version, result) ==
    IF result.canExec = JAbsent
    THEN throwError("must return {canExec: bool}", result)
    ELSE IF NeedsCallData(result.canExec) /\ result.callData = JAbsent
    THEN throwError(IF version = "V1"
                    THEN "must return {canExec: bool, callData: string}"
                    ELSE "must return {canExec: bool, callData: {to: string, data: string}[]}",
                    result)
    ELSE IF ~NeedsCallData(result.canExec) THEN Returns
    ELSE IF version = "V1"
    THEN IF isValidData(result.callData) = "TypeError" THEN TypeError
         ELSE IF isValidData(result.callData) = "false"
              THEN throwError("returned invalid callData", result)
         ELSE Returns
    ELSE IF result.callData.t # "array"
         THEN throwError("must return {canExec: bool, callData: {to: string, data: string}[]}", result)
         ELSE ValidateEntries(result.callData.v, 1, result)

\* the error run() catches when _validateResult throws
ValidationError(outcome) ==
    IF outcome.kind = "TypeError" THEN PlainError("TypeError") ELSE PlainError("validation")

\* ---------------------------------------------------------- guest storage
\* A storage object is a function on Keys: Missing where the object has no
\* such property, Undefined where the property holds undefined, Null where
\* it holds null, a member of StorageValues where it holds a string.
Keys == {"k1", "k2"}
StorageValues == {"a", "b"}
Missing == "<missing>"
Undefined == "<undefined>"
Null == "<null>"
\* a value whose typeof is not "string"
NonString == "<number>"

\* typeof value === "string"
TypeofString(value) == value \in StorageValues

EmptyObject == [k \in Keys |-> Missing]

\* Object.keys(o)
OwnKeys(o) == {k \in Keys : o[k] # Missing}

\* the storage maps a start message can carry: strings only
IncomingStorages == [Keys -> StorageValues \cup {Missing}]

\* JSON.stringify of an object: a property that holds undefined is omitted
JsonObject(o) == [k \in Keys |-> IF o[k] = Undefined THEN Missing ELSE o[k]]

\* { ...event.data.context.storage }
ShallowCopy(o) == o

\* storage.set of the facade, for a string value
set(storage, key, value) == [storage EXCEPT ![key] = value]

\* storage.delete of the facade: the property is kept and holds undefined
delete(storage, key) == [storage EXCEPT ![key] = Undefined]

\* diff(lhs, rhs) of deep-object-diff on objects whose values are not
\* objects: a property of lhs that rhs lacks is undefined, a property only
\* rhs has or whose value differs is the value of rhs
diff(lhs, rhs) ==
    [k \in Keys |->
        IF rhs[k] = Missing
        THEN IF lhs[k] # Missing THEN Undefined ELSE Missing
        ELSE IF lhs[k] = Missing THEN rhs[k]
        ELSE IF lhs[k] = rhs[k] THEN Missing
        ELSE rhs[k]]

\* a loop that leaves undefined in the difference
Tombstones_none(difference) == difference

\* for (const key in difference) if (difference[key] === undefined) difference[key] = null
Tombstones(difference) ==
    [k \in Keys |-> IF difference[k] = Undefined THEN Null ELSE difference[k]]

NoStorage == [state |-> "none", storage |-> EmptyObject, diff |-> EmptyObject]
NoReply == [action |-> "none", storage |-> NoStorage]

\* the storage of the result event, as serialized
ResultStorage(prev, ctx) ==
    LET difference == Tombstones(diff(prev, ctx))
    IN [state |-> IF OwnKeys(difference) = {} THEN "last" ELSE "updated",
        storage |-> JsonObject(ctx),
        diff |-> JsonObject(difference)]

\* an error event that carries the storage as the handler left it
ErrorStorage_current(prev, ctx) ==
    [state |-> "last", storage |-> JsonObject(ctx), diff |-> EmptyObject]

\* the storage of the error event, as serialized; prev and ctx are
\* prevStorage and ctxData.storage in the catch arm
ErrorStorage(prev, ctx) ==
    [state |-> "last", storage |-> JsonObject(prev), diff |-> EmptyObject]

\* Buffer.byteLength(JSON.stringify(data.storage), "utf-8") / 1024, counted
\* in units of one property of storage or of diff
StorageSize(st) == Cardinality(OwnKeys(st.storage)) + Cardinality(OwnKeys(st.diff))

\* { ...data.storage, size }
StorageWithSize(st) ==
    [state |-> st.state, storage |-> st.storage, diff |-> st.diff, size |-> StorageSize(st)]

NoStorageWithSize == [state |-> "none", storage |-> EmptyObject, diff |-> EmptyObject, size |-> 0]

\* the storages of the result events run() receives: nothing stored and
\* nothing changed, and one key set in an empty storage
ReceivedStorages ==
    {ResultStorage(EmptyObject, EmptyObject),
     ResultStorage(EmptyObject, set(EmptyObject, "k1", "a"))}

\* ------------------------------------------------------------ HTTP proxy
\* this._httpProxy?.getStats() ?? { nbRequests: 0, nbThrottled: 0, download: 0, upload: 0 }
ZeroStats == [nbRequests |-> 0, nbThrottled |-> 0, download |-> 0, upload |-> 0]

\* the counters of an HTTP proxy: requests, throttled requests, KB received
\* and KB sent
NetworkStats == [nbRequests : 0..MaxStat, nbThrottled : 0..MaxStat, download : 0..MaxStat, upload : 0..MaxStat]

\* the counters run() reads in this model: no traffic, and one request that
\* was throttled
ReadStats == {ZeroStats, [nbRequests |-> 1, nbThrottled |-> 1, download |-> 0, upload |-> 0]}

\* this._proxyProvider?.getNbRpcCalls() ?? { total: 0, throttled: 0 }
ZeroRpcCalls == [total |-> 0, throttled |-> 0]

\* no log line, no RPC call and no HTTP request
ZeroCounters == [logs |-> 0, rpcCalls |-> ZeroRpcCalls, network |-> ZeroStats]
NoCounterReport == [returned |-> FALSE, logs |-> 0, rpcCalls |-> ZeroRpcCalls, network |-> ZeroStats]

NoEvent == [action |-> "none", result |-> NoResult, storage |-> NoStorage, error |-> NoError]
NoExec == [done |-> FALSE, success |-> FALSE, result |-> NoResult, storage |-> NoStorageWithSize, error |-> NoError]
NoReport ==
    [returned |-> FALSE, success |-> FALSE, result |-> NoResult, storage |-> NoStorageWithSize,
     error |-> NoError, duration |-> 0, memory |-> 0, network |-> ZeroStats, throttled |-> {}]
NoPromise == [state |-> "none", result |-> NoResult, storage |-> NoStorage, error |-> NoError]

VARIABLES
    pc,            \* position of run()
    runner,        \* private fields of the Web3FunctionRunner
    options,       \* payload.options
    now,           \* performance.now(), in time units
    start,         \* const start of run()
    execDeadline,  \* expiry of the execution timeout
    graceDeadline, \* expiry of delay(100) in the exit handler
    promise,       \* the promise returned by _runInSandbox
    isResolved,    \* let isResolved of _runInSandbox
    exitWaiter,    \* the waitForProcessEnd().then handler
    procEnd,       \* value waitForProcessEnd() resolved with
    pendingStops,  \* stop() calls of the client error handler awaiting sandbox.stop()
    exec,          \* success / result / error of run()
    report,        \* value run() returned
    guest,         \* the guest process
    guestCode,     \* exit code of the guest process
    onRun,         \* this._onRun is set: read when the start message arrives
    inputEvent,    \* the start message
    outputEvent,   \* the guest's reply on the wire
    emitted,       \* number of terminal events the guest emitted
    exitVia,       \* how the guest process ended
    stopCalls,     \* number of stop() invocations since run entry
    clientErrors,  \* number of client error events handled
    signals,       \* the signals of the event race so far, in the order they occurred
    \* the guest's storage facade (Web3Function._onFunctionEvent, _run)
    preStorage,    \* the storage of the start message, as it was received
    prevStorage,   \* const prevStorage of _onFunctionEvent
    ctxStorage,    \* event.data.context.storage, which the facade mutates
    handlerPc,     \* position of _onFunctionEvent
    handlerCalls,  \* number of storage.set / storage.delete calls of the handler
    storageReply,  \* the event _onFunctionEvent returns, as serialized to JSON
    \* a call of _validateResult
    vVersion,      \* its argument version
    vResult,       \* its argument result
    vOutcome,      \* how the call ended
    \* a call of validateUserArgs and the round trip through parseUserArgs
    argType,       \* userArgsSchema[key]
    argValue,      \* userArgs[key]
    argOutcome,    \* how validateUserArgs and parseUserArgs ended
    \* run() from the settled promise of _runInSandbox to the report
    rPromise,      \* the settled promise
    rNetwork,      \* this._httpProxy.getStats()
    rOptions,      \* payload.options
    rReport,       \* the report
    \* run() from the end of the try block to the report, with the guest, the
    \* proxies and their counters
    cPc,           \* position of run()
    cRunner,       \* private fields of the Web3FunctionRunner
    cGuest,        \* the guest process lives
    cCounters,     \* the log lines of the sandbox and the counters of the proxies
    cReport        \* logs, rpcCalls and network of the report

runVars == <<pc, runner, options, now, start, execDeadline, graceDeadline,
          promise, isResolved, exitWaiter, procEnd, pendingStops, exec, report,
          guest, guestCode, onRun, inputEvent, outputEvent, emitted, exitVia,
          stopCalls, clientErrors, signals>>

storageVars == <<preStorage, prevStorage, ctxStorage, handlerPc, handlerCalls, storageReply>>

validatorVars == <<vVersion, vResult, vOutcome>>

argsVars == <<argType, argValue, argOutcome>>

reportVars == <<rPromise, rNetwork, rOptions, rReport>>

counterVars == <<cPc, cRunner, cGuest, cCounters, cReport>>

\* the variables the actions of run() and of the guest process leave alone
libVars == <<storageVars, validatorVars, argsVars, reportVars, counterVars>>

vars == <<runVars, storageVars, validatorVars, argsVars, reportVars, counterVars>>

supVars == <<pc, runner, options, start, execDeadline, graceDeadline,
             promise, isResolved, exitWaiter, procEnd, pendingStops, exec, report,
             stopCalls, clientErrors, signals>>

guestVars == <<guest, guestCode, onRun, inputEvent, outputEvent, emitted, exitVia>>

\* -------------------------------------------------------- runner fields
NewRunner ==
    [_memory |-> 0,
     _proxyProvider |-> "undefined",
     _httpProxy |-> "undefined",
     _client |-> "undefined",
     _sandbox |-> "undefined",
     _execTimeoutId |-> "undefined",
     _memoryIntervalId |-> "undefined",
     _exitRemover |-> "noop"]

\* payload.options of run(): the runtime and the timeout vary, the limits
\* are one request, one KB down, one KB up and one unit of storage
Options(rt, t) ==
    [runtime |-> rt, timeout |-> t, memory |-> MaxMemory,
     requestLimit |-> 1, downloadLimit |-> KB, uploadLimit |-> KB, storageLimit |-> 1]

RunIdle ==
    /\ pc = "idle"
    /\ runner = NewRunner
    /\ options = Options("thread", GRACE_DELAY)
    /\ now = 0
    /\ start = 0
    /\ execDeadline = 0
    /\ graceDeadline = 0
    /\ promise = NoPromise
    /\ isResolved = FALSE
    /\ exitWaiter = "none"
    /\ procEnd = NotEnded
    /\ pendingStops = 0
    /\ exec = NoExec
    /\ report = NoReport
    /\ guest = "none"
    /\ guestCode = NotEnded
    /\ onRun = FALSE
    /\ inputEvent = "none"
    /\ outputEvent = NoEvent
    /\ emitted = 0
    /\ exitVia = "none"
    /\ stopCalls = 0
    /\ clientErrors = 0
    /\ signals = <<>>


StorageIdle ==
    /\ preStorage = EmptyObject
    /\ prevStorage = EmptyObject
    /\ ctxStorage = EmptyObject
    /\ handlerPc = "idle"
    /\ handlerCalls = 0
    /\ storageReply = NoReply

ValidatorIdle ==
    /\ vVersion = "V1"
    /\ vResult = NoResult
    /\ vOutcome = NotCalled

ArgsIdle ==
    /\ argType = "none"
    /\ argValue = JNone
    /\ argOutcome = NoArgOutcome

ReportIdle ==
    /\ rPromise = NoPromise
    /\ rNetwork = ZeroStats
    /\ rOptions = Options("thread", GRACE_DELAY)
    /\ rReport = NoReport

CountersIdle ==
    /\ cPc = "idle"
    /\ cRunner = NewRunner
    /\ cGuest = FALSE
    /\ cCounters = ZeroCounters
    /\ cReport = NoCounterReport

Init == RunIdle /\ StorageIdle /\ ValidatorIdle /\ ArgsIdle /\ ReportIdle /\ CountersIdle

\* ------------------------------------------------------------ stop()
\* this._sandbox.stop(): the sandbox kills the guest process
SandboxStop(s) == IF s = "undefined" THEN "TypeError" ELSE "stopped"

\* this._client.end()
ClientEnd(c) == IF c = "undefined" THEN "TypeError" ELSE "ended"

\* this._proxyProvider.stop() and this._httpProxy.stop()
ProxyStop(p) == IF p = "undefined" THEN "TypeError" ELSE "stopped"

\* clearTimeout / clearInterval
ClearTimer(t) == "cleared"

\* stop() that forgets to stop the HTTP proxy
stopTail_keepsHttpProxy(r) ==
    [r EXCEPT
        !._client = IF @ # "undefined" THEN ClientEnd(@) ELSE @,
        !._proxyProvider = IF @ # "undefined" THEN ProxyStop(@) ELSE @,
        !._execTimeoutId = IF @ # "undefined" THEN ClearTimer(@) ELSE @,
        !._memoryIntervalId = IF @ # "undefined" THEN ClearTimer(@) ELSE @,
        !._exitRemover = IF @ = "noop" THEN "noop" ELSE "removed"]

\* stop() that ends the client without testing that it exists
stopTail_unguardedClient(r) ==
    [r EXCEPT
        !._client = ClientEnd(@),
        !._proxyProvider = IF @ # "undefined" THEN ProxyStop(@) ELSE @,
        !._httpProxy = IF @ # "undefined" THEN ProxyStop(@) ELSE @,
        !._execTimeoutId = IF @ # "undefined" THEN ClearTimer(@) ELSE @,
        !._memoryIntervalId = IF @ # "undefined" THEN ClearTimer(@) ELSE @,
        !._exitRemover = IF @ = "noop" THEN "noop" ELSE "removed"]

\* stop(), from the return of `await this._sandbox.stop()` to its end
stopTail(r) ==
    [r EXCEPT
        !._client = IF @ # "undefined" THEN ClientEnd(@) ELSE @,
        !._proxyProvider = IF @ # "undefined" THEN ProxyStop(@) ELSE @,
        !._httpProxy = IF @ # "undefined" THEN ProxyStop(@) ELSE @,
        !._execTimeoutId = IF @ # "undefined" THEN ClearTimer(@) ELSE @,
        !._memoryIntervalId = IF @ # "undefined" THEN ClearTimer(@) ELSE @,
        !._exitRemover = IF @ = "noop" THEN "noop" ELSE "removed"]

\* stop() whose sandbox.stop() does not reject
stop(r) ==
    stopTail([r EXCEPT !._sandbox = IF @ # "undefined" THEN SandboxStop(@) ELSE @])

\* ------------------------------------------------------------ run()
Active == pc \notin {"idle", "returned", "rejected", "hostExit"}

ExecTimerDue == runner._execTimeoutId = "set" /\ now >= execDeadline

GraceDue == exitWaiter = "grace" /\ now >= graceDeadline

TimerPending ==
    \/ runner._execTimeoutId = "set" /\ execDeadline > now
    \/ exitWaiter = "grace" /\ graceDeadline > now

\* the passage of 100 ms: the time the start-up steps take passes in the
\* connect phase, afterwards time passes up to the expiry of the timers
Tick ==
    /\ pc \in {"connecting", "waiting", "finally"}
    /\ ~ExecTimerDue /\ ~GraceDue
    /\ (pc = "connecting" /\ now < MaxTime) \/ TimerPending
    /\ now' = now + 1
    /\ UNCHANGED <<supVars, guestVars>>
    /\ UNCHANGED libVars

\* a catch arm that calls stop() itself, before the finally arm does
CatchAndStop_stopsTwice(err) ==
    /\ exec' = [NoExec EXCEPT !.done = TRUE, !.error = err]
    /\ stopCalls' = stopCalls + 2
    /\ pc' = "finally"

\* catch (err) { error = err; success = false } finally { await this.stop() }:
\* up to the call of this._sandbox.stop() inside stop()
CatchAndStop(err) ==
    /\ exec' = [NoExec EXCEPT !.done = TRUE, !.error = err]
    /\ stopCalls' = stopCalls + 1
    /\ pc' = "finally"

\* run(payload) up to the first await of _runInSandbox
Run ==
    /\ pc = "idle"
    /\ \E rt \in Runtimes, t \in Timeouts : options' = Options(rt, t)
    /\ start' = now
    /\ runner' = [runner EXCEPT !._sandbox = "created"]
    /\ pc' = "allocPorts"
    /\ stopCalls' = 0
    /\ clientErrors' = 0
    /\ UNCHANGED <<now, execDeadline, graceDeadline, promise, isResolved, exitWaiter,
                   procEnd, pendingStops, exec, report, signals, guestVars>>
    /\ UNCHANGED libVars

\* the protocol port and the HTTP proxy port are acquired, the HTTP proxy
\* is started and sandbox.start() is called
AllocPorts ==
    /\ pc = "allocPorts"
    /\ runner' = [runner EXCEPT !._httpProxy = "started"]
    /\ pc' = "startSandbox"
    /\ UNCHANGED <<options, now, start, execDeadline, graceDeadline, promise,
                   isResolved, exitWaiter, procEnd, pendingStops, exec, report,
                   stopCalls, clientErrors, signals, guestVars>>
    /\ UNCHANGED libVars

\* getAvailablePort() rejects before the HTTP proxy exists
AllocPortsFail ==
    /\ pc = "allocPorts"
    /\ CatchAndStop(PlainError("port"))
    /\ UNCHANGED <<runner, options, now, start, execDeadline, graceDeadline,
                   promise, isResolved, exitWaiter, procEnd, pendingStops, report,
                   clientErrors, signals, guestVars>>
    /\ UNCHANGED libVars

\* sandbox.start() resolves: the guest process boots, the exit hook is
\* attached and the port of the RPC proxy is requested
SandboxStart ==
    /\ pc = "startSandbox"
    /\ runner' = [runner EXCEPT !._sandbox = "running", !._exitRemover = "installed"]
    /\ guest' = "listening"
    /\ pc' = "allocRpcPort"
    /\ UNCHANGED <<options, now, start, execDeadline, graceDeadline, promise,
                   isResolved, exitWaiter, procEnd, pendingStops, exec, report,
                   stopCalls, clientErrors, signals,
                   guestCode, onRun, inputEvent, outputEvent, emitted, exitVia>>
    /\ UNCHANGED libVars

\* sandbox.start() rejects
SandboxStartFail ==
    /\ pc = "startSandbox"
    /\ CatchAndStop(PlainError("startSandbox"))
    /\ UNCHANGED <<runner, options, now, start, execDeadline, graceDeadline,
                   promise, isResolved, exitWaiter, procEnd, pendingStops, report,
                   clientErrors, signals, guestVars>>
    /\ UNCHANGED libVars

\* the RPC proxy is created and its start() is called
AllocRpcPort ==
    /\ pc = "allocRpcPort"
    /\ runner' = [runner EXCEPT !._proxyProvider = "created"]
    /\ pc' = "startRpcProxy"
    /\ UNCHANGED <<options, now, start, execDeadline, graceDeadline, promise,
                   isResolved, exitWaiter, procEnd, pendingStops, exec, report,
                   stopCalls, clientErrors, signals, guestVars>>
    /\ UNCHANGED libVars

\* getAvailablePort() rejects before the RPC proxy exists
AllocRpcPortFail ==
    /\ pc = "allocRpcPort"
    /\ CatchAndStop(PlainError("port"))
    /\ UNCHANGED <<runner, options, now, start, execDeadline, graceDeadline,
                   promise, isResolved, exitWaiter, procEnd, pendingStops, report,
                   clientErrors, signals, guestVars>>
    /\ UNCHANGED libVars

\* proxyProvider.start() resolves; the memory sampler is started, the
\* client is created and connect() is raced against waitForProcessEnd()
StartRpcProxy ==
    /\ pc = "startRpcProxy"
    /\ runner' = [runner EXCEPT !._proxyProvider = "started",
                                !._memoryIntervalId = "set",
                                !._client = "connecting"]
    /\ pc' = "connecting"
    /\ UNCHANGED <<options, now, start, execDeadline, graceDeadline, promise,
                   isResolved, exitWaiter, procEnd, pendingStops, exec, report,
                   stopCalls, clientErrors, signals, guestVars>>
    /\ UNCHANGED libVars

\* proxyProvider.start() rejects
StartRpcProxyFail ==
    /\ pc = "startRpcProxy"
    /\ CatchAndStop(PlainError("rpcProxy"))
    /\ UNCHANGED <<runner, options, now, start, execDeadline, graceDeadline,
                   promise, isResolved, exitWaiter, procEnd, pendingStops, report,
                   clientErrors, signals, guestVars>>
    /\ UNCHANGED libVars


\* ---------------------------------------------------- run(): result, report
\* network flags that take every throttled request for a reached request limit
NetworkThrottled_requestAlways(networkStats, opts) ==
    IF networkStats.nbThrottled > 0
    THEN {flag \in {"networkRequest", "download", "upload"} :
            \/ flag = "networkRequest"
            \/ flag = "download" /\ networkStats.download * KB >= opts.downloadLimit
            \/ flag = "upload" /\ networkStats.upload * KB >= opts.uploadLimit}
    ELSE {}

\* the network flags run() sets: none unless a request was throttled
NetworkThrottled(networkStats, opts) ==
    IF networkStats.nbThrottled > 0
    THEN {flag \in {"networkRequest", "download", "upload"} :
            \/ flag = "networkRequest" /\ networkStats.nbRequests >= opts.requestLimit
            \/ flag = "download" /\ networkStats.download * KB >= opts.downloadLimit
            \/ flag = "upload" /\ networkStats.upload * KB >= opts.uploadLimit}
    ELSE {}

\* a storage flag set for a size that has only reached the limit
StorageThrottled_atLimit(storage, opts) ==
    IF storage.state = "updated" /\ storage.size >= opts.storageLimit THEN {"storage"} ELSE {}

\* the storage flag of a successful run
StorageThrottled(storage, opts) ==
    IF storage.state = "updated" /\ storage.size > opts.storageLimit THEN {"storage"} ELSE {}

\* a failure report that does not forward the throttled reason of the error
ReasonThrottled_none(error) == {}

\* the flag of a failed run: the throttled reason of a runtime error
ReasonThrottled(error) ==
    IF error.runtimeError /\ error.throttledReason # "none" THEN {error.throttledReason} ELSE {}

\* the report run() assembles after stop()
BuildReport(e, r, duration, networkStats, opts) ==
    [returned |-> TRUE,
     success |-> e.success,
     result |-> e.result,
     storage |-> e.storage,
     error |-> e.error,
     duration |-> duration,
     memory |-> r._memory,
     network |-> networkStats,
     throttled |-> NetworkThrottled(networkStats, opts)
                     \cup IF e.success
                          THEN StorageThrottled(e.storage, opts)
                          ELSE ReasonThrottled(e.error)]

\* a try block that assigns result and storage before it validates
TryResult_keepsData(p, v) ==
    IF p.state = "resolved"
    THEN [done |-> TRUE, success |-> _validateResult(v, p.result) = Returns, result |-> p.result,
          storage |-> StorageWithSize(p.storage),
          error |-> IF _validateResult(v, p.result) = Returns
                    THEN NoError
                    ELSE ValidationError(_validateResult(v, p.result))]
    ELSE [NoExec EXCEPT !.done = TRUE, !.error = p.error]

\* a catch arm that leaves success true
TryResult_successOnCatch(p, v) ==
    IF p.state = "resolved" /\ _validateResult(v, p.result) = Returns
    THEN [done |-> TRUE, success |-> TRUE, result |-> p.result,
          storage |-> StorageWithSize(p.storage), error |-> NoError]
    ELSE [NoExec EXCEPT !.done = TRUE, !.success = TRUE,
                        !.error = IF p.state = "resolved"
                                  THEN ValidationError(_validateResult(v, p.result))
                                  ELSE p.error]

\* the try block of run() after `await this._runInSandbox(...)`: the value
\* of a resolved promise is validated for payload.version v, a rejection is
\* caught
TryResult(p, v) ==
    IF p.state = "resolved"
    THEN IF _validateResult(v, p.result) = Returns
         THEN [done |-> TRUE, success |-> TRUE, result |-> p.result,
               storage |-> StorageWithSize(p.storage), error |-> NoError]
         ELSE [NoExec EXCEPT !.done = TRUE, !.error = ValidationError(_validateResult(v, p.result))]
    ELSE [NoExec EXCEPT !.done = TRUE, !.error = p.error]

\* ------------------------------------------------- _runInSandbox: event race
resolve(p, data) ==
    IF p.state = "pending"
    THEN [state |-> "resolved", result |-> data.result, storage |-> data.storage, error |-> NoError]
    ELSE p

\* a promise that a later rejection overwrites
reject_overwrites(p, err) ==
    IF p.state # "none"
    THEN [NoPromise EXCEPT !.state = "rejected", !.error = err]
    ELSE p

reject(p, err) ==
    IF p.state = "pending"
    THEN [NoPromise EXCEPT !.state = "rejected", !.error = err]
    ELSE p

\* the promise of _runInSandbox becomes p; when this settles it, run()
\* resumes in the same turn of the event loop: try / catch, then the finally
\* arm calls stop(), which awaits this._sandbox.stop().  payload.version is
\* read by _validateResult only and is drawn here.
Settle(p) ==
    /\ promise' = p
    /\ IF promise.state = "pending" /\ p.state # "pending"
       THEN /\ \E v \in Versions : exec' = TryResult(p, v)
            /\ stopCalls' = stopCalls + 1
            /\ pc' = "finally"
       ELSE UNCHANGED <<exec, stopCalls, pc>>

\* an exit handler that tests the memory before the code 250
ExitRejection_memoryFirst(signal, opts, memory) ==
    IF signal = 0 THEN PlainError("exitedWithoutResult")
    ELSE IF \/ opts.runtime = "docker" /\ signal = 137
            \/ opts.runtime = "thread" /\ memory >= opts.memory
         THEN Web3FunctionRuntimeError("memory", signal)
    ELSE IF signal = 250 THEN Web3FunctionRuntimeError("rpcRequest", signal)
    ELSE [PlainError("exitCode") EXCEPT !.code = signal]

\* an exit handler that asks for a memory above the cap
ExitRejection_aboveCap(signal, opts, memory) ==
    IF signal = 0 THEN PlainError("exitedWithoutResult")
    ELSE IF signal = 250 THEN Web3FunctionRuntimeError("rpcRequest", signal)
    ELSE IF \/ opts.runtime = "docker" /\ signal = 137
            \/ opts.runtime = "thread" /\ memory > opts.memory
         THEN Web3FunctionRuntimeError("memory", signal)
    ELSE [PlainError("exitCode") EXCEPT !.code = signal]

\* an exit handler without the case of exit code 0
ExitRejection_zeroAsCode(signal, opts, memory) ==
    IF signal = 250 THEN Web3FunctionRuntimeError("rpcRequest", signal)
    ELSE IF \/ opts.runtime = "docker" /\ signal = 137
            \/ opts.runtime = "thread" /\ memory >= opts.memory
         THEN Web3FunctionRuntimeError("memory", signal)
    ELSE [PlainError("exitCode") EXCEPT !.code = signal]

\* the rejection the exit handler chooses for an exit signal
ExitRejection(signal, opts, memory) ==
    IF signal = 0 THEN PlainError("exitedWithoutResult")
    ELSE IF signal = 250 THEN Web3FunctionRuntimeError("rpcRequest", signal)
    ELSE IF \/ opts.runtime = "docker" /\ signal = 137
            \/ opts.runtime = "thread" /\ memory >= opts.memory
         THEN Web3FunctionRuntimeError("memory", signal)
    ELSE [PlainError("exitCode") EXCEPT !.code = signal]

\* the body of `new Promise((resolve, reject) => ...)`: the start message is
\* emitted, the handlers are attached, the execution timeout is set and the
\* exit handler is attached
BeginWait(connected) ==
    /\ runner' = [runner EXCEPT !._client = IF connected THEN "connected" ELSE @,
                                !._execTimeoutId = "set"]
    /\ inputEvent' = IF connected THEN "inflight" ELSE "dropped"
    /\ promise' = [NoPromise EXCEPT !.state = "pending"]
    /\ execDeadline' = now + options.timeout
    /\ exitWaiter' = "attached"
    /\ signals' = <<>>
    /\ pc' = "waiting"

\* client.connect() wins the race of the connect phase
Connect ==
    /\ pc = "connecting"
    /\ procEnd = NotEnded
    /\ BeginWait(TRUE)
    /\ UNCHANGED <<options, now, start, graceDeadline, isResolved, procEnd, pendingStops,
                   exec, report, stopCalls, clientErrors,
                   guest, guestCode, onRun, outputEvent, emitted, exitVia>>
    /\ UNCHANGED libVars

\* client.connect() rejects before the sandbox has ended
ConnectFail ==
    /\ pc = "connecting"
    /\ procEnd = NotEnded
    /\ CatchAndStop(PlainError("startupTimeout"))
    /\ UNCHANGED <<runner, options, now, start, execDeadline, graceDeadline,
                   promise, isResolved, exitWaiter, procEnd, pendingStops, report,
                   clientErrors, signals, guestVars>>
    /\ UNCHANGED libVars

\* waitForProcessEnd() wins the race of the connect phase
ConnectEarlyExit ==
    /\ pc = "connecting"
    /\ procEnd # NotEnded
    /\ BeginWait(FALSE)
    /\ UNCHANGED <<options, now, start, graceDeadline, isResolved, procEnd, pendingStops,
                   exec, report, stopCalls, clientErrors,
                   guest, guestCode, onRun, outputEvent, emitted, exitVia>>
    /\ UNCHANGED libVars

\* waitForProcessEnd() resolves with the exit code of the guest process
ProcessEnd ==
    /\ Active
    /\ guest = "exited"
    /\ procEnd = NotEnded
    /\ procEnd' = guestCode
    /\ UNCHANGED <<pc, runner, options, now, start, execDeadline, graceDeadline,
                   promise, isResolved, exitWaiter, pendingStops, exec, report, stopCalls,
                   clientErrors, signals, guestVars>>
    /\ UNCHANGED libVars

\* an exit handler without the grace delay
ExitHandlerWaits_never(resolved) == FALSE

\* `if (!isResolved) await delay(100)`
ExitHandlerWaits(resolved) == ~resolved

\* `if (!isResolved)` reject by the exit signal
ExitVerdict ==
    IF ~isResolved
    THEN reject(promise, ExitRejection(procEnd, options, runner._memory))
    ELSE promise

\* the handler attached to waitForProcessEnd() starts
ExitHandler ==
    /\ Active
    /\ exitWaiter = "attached"
    /\ procEnd # NotEnded
    /\ signals' = Append(signals, "exit")
    /\ IF ExitHandlerWaits(isResolved)
       THEN /\ exitWaiter' = "grace"
            /\ graceDeadline' = now + GRACE_DELAY
            /\ UNCHANGED <<promise, exec, stopCalls, pc>>
       ELSE /\ exitWaiter' = "done"
            /\ Settle(ExitVerdict)
            /\ UNCHANGED graceDeadline
    /\ UNCHANGED <<runner, options, now, start, execDeadline, isResolved,
                   procEnd, pendingStops, report, clientErrors, guestVars>>
    /\ UNCHANGED libVars

\* delay(100) of the exit handler is over
GraceExpire ==
    /\ Active
    /\ GraceDue
    /\ exitWaiter' = "done"
    /\ Settle(ExitVerdict)
    /\ signals' = Append(signals, "graceEnd")
    /\ UNCHANGED <<runner, options, now, start, execDeadline, graceDeadline,
                   isResolved, procEnd, pendingStops, report,
                   clientErrors, guestVars>>
    /\ UNCHANGED libVars

\* the callback of this._execTimeoutId
ExecTimeout ==
    /\ Active
    /\ ExecTimerDue
    /\ runner' = [runner EXCEPT !._execTimeoutId = "fired"]
    /\ Settle(reject(promise, Web3FunctionRuntimeError("duration", NotEnded)))
    /\ signals' = Append(signals, "timeout")
    /\ UNCHANGED <<options, now, start, execDeadline, graceDeadline,
                   isResolved, exitWaiter, procEnd, pendingStops, report,
                   clientErrors, guestVars>>
    /\ UNCHANGED libVars

\* client.on("output_event")
OutputEvent ==
    /\ Active
    /\ outputEvent.action # "none"
    /\ runner._client = "connected"
    /\ promise.state # "none"
    /\ isResolved' = TRUE
    /\ Settle(IF outputEvent.action = "result"
              THEN resolve(promise, [result |-> outputEvent.result, storage |-> outputEvent.storage])
              ELSE reject(promise, outputEvent.error))
    /\ signals' = Append(signals, outputEvent.action)
    /\ outputEvent' = NoEvent
    /\ UNCHANGED <<runner, options, now, start, execDeadline, graceDeadline,
                   exitWaiter, procEnd, pendingStops, report,
                   clientErrors, guest, guestCode, onRun, inputEvent, emitted, exitVia>>
    /\ UNCHANGED libVars

\* client.on("error"): stop() is called and awaits this._sandbox.stop()
ClientError ==
    /\ Active
    /\ promise.state # "none"
    /\ runner._client \in {"connecting", "connected"}
    /\ clientErrors < MaxClientErrors
    /\ clientErrors' = clientErrors + 1
    /\ stopCalls' = stopCalls + 1
    /\ pendingStops' = pendingStops + 1
    /\ UNCHANGED <<pc, runner, options, now, start, execDeadline, graceDeadline,
                   promise, isResolved, exitWaiter, procEnd, exec, report, signals,
                   guestVars>>
    /\ UNCHANGED libVars

\* the guest process is killed by a sandbox.stop() that resolves
KillGuest ==
    IF guest \in {"listening", "running", "replied"}
    THEN /\ guest' = "exited"
         /\ \E c \in KillCodes : guestCode' = c
         /\ exitVia' = "killed"
    ELSE UNCHANGED <<guest, guestCode, exitVia>>

\* stop() of the client error handler runs to its end
ClientErrorStop ==
    /\ Active
    /\ pendingStops > 0
    /\ pendingStops' = pendingStops - 1
    /\ runner' = stop(runner)
    /\ KillGuest
    /\ UNCHANGED <<pc, options, now, start, execDeadline, graceDeadline, promise,
                   isResolved, exitWaiter, procEnd, exec, report, stopCalls, clientErrors,
                   signals, onRun, inputEvent, outputEvent, emitted>>
    /\ UNCHANGED libVars

\* this._sandbox.stop() rejects in the client error handler: caught and logged
ClientErrorStopFail ==
    /\ Active
    /\ pendingStops > 0
    /\ pendingStops' = pendingStops - 1
    /\ UNCHANGED <<pc, runner, options, now, start, execDeadline, graceDeadline,
                   promise, isResolved, exitWaiter, procEnd, exec, report, stopCalls,
                   clientErrors, signals, guestVars>>
    /\ UNCHANGED libVars

\* the memory sampler: a sample above the maximum seen so far
MonitorMemoryUsage ==
    /\ Active
    /\ runner._memoryIntervalId = "set"
    /\ guest \in {"listening", "running", "replied"}
    /\ \E liveMemory \in MemorySamples :
          /\ liveMemory > runner._memory
          /\ runner' = [runner EXCEPT !._memory = liveMemory]
    /\ UNCHANGED <<pc, options, now, start, execDeadline, graceDeadline, promise,
                   isResolved, exitWaiter, procEnd, pendingStops, exec, report, stopCalls,
                   clientErrors, signals, guestVars>>
    /\ UNCHANGED libVars

\* the counters run() reads from the HTTP proxy after stop()
getStats(httpProxy) == IF httpProxy = "undefined" THEN {ZeroStats} ELSE ReadStats

\* stop() of the finally arm runs to its end and run() returns the report
FinallyStop ==
    /\ pc = "finally"
    /\ runner' = stop(runner)
    /\ KillGuest
    /\ \E networkStats \in getStats(runner'._httpProxy) :
          report' = BuildReport(exec, runner', now - start, networkStats, options)
    /\ pc' = "returned"
    /\ UNCHANGED <<options, now, start, execDeadline, graceDeadline, promise,
                   isResolved, exitWaiter, procEnd, pendingStops, exec, stopCalls,
                   clientErrors, signals, onRun, inputEvent, outputEvent, emitted>>
    /\ UNCHANGED libVars

\* this._sandbox.stop() rejects in the finally arm: stop() rejects and so
\* does run()
FinallyStopFail ==
    /\ pc = "finally"
    /\ runner._sandbox # "undefined"
    /\ pc' = "rejected"
    /\ UNCHANGED <<runner, options, now, start, execDeadline, graceDeadline,
                   promise, isResolved, exitWaiter, procEnd, pendingStops, exec, report,
                   stopCalls, clientErrors, signals, guestVars>>
    /\ UNCHANGED libVars

\* the hook attached with onExit runs: stop() is called and the host
\* process ends
ExitHook ==
    /\ Active
    /\ runner._exitRemover = "installed"
    /\ stopCalls' = stopCalls + 1
    /\ pc' = "hostExit"
    /\ UNCHANGED <<runner, options, now, start, execDeadline, graceDeadline,
                   promise, isResolved, exitWaiter, procEnd, pendingStops, exec, report,
                   clientErrors, signals, guestVars>>
    /\ UNCHANGED libVars

\* ------------------------------------------------------------ guest agent
\* an exit scheduled before the handler has run to its end
ExitScheduled_early(g) == g \in {"running", "replied"}

\* the exit scheduled by _exit() in the finally arm of _onFunctionEvent is
\* due once the reply has been handed to the server
ExitScheduled(g) == g = "replied"

\* _onFunctionEvent receives the start message and calls _run, which throws
\* at once when no handler is registered
GuestStart ==
    /\ Active
    /\ inputEvent = "inflight"
    /\ guest = "listening"
    /\ inputEvent' = "delivered"
    /\ \E registered \in BOOLEAN : onRun' = registered
    /\ IF onRun'
       THEN /\ guest' = "running"
            /\ UNCHANGED <<outputEvent, emitted>>
       ELSE /\ guest' = "replied"
            /\ outputEvent' = [NoEvent EXCEPT !.action = "error", !.error = GuestError,
                                               !.storage = ErrorStorage(EmptyObject, EmptyObject)]
            /\ emitted' = emitted + 1
    /\ UNCHANGED <<supVars, now, guestCode, exitVia>>
    /\ UNCHANGED libVars

\* the handler returns: the result event is replied
HandlerReturn ==
    /\ Active
    /\ guest = "running"
    /\ \E res \in HandlerResults, st \in ReceivedStorages :
          outputEvent' = [action |-> "result", result |-> res, storage |-> st, error |-> NoError]
    /\ emitted' = emitted + 1
    /\ guest' = "replied"
    /\ UNCHANGED <<supVars, now, guestCode, onRun, inputEvent, exitVia>>
    /\ UNCHANGED libVars

\* the handler throws: the error event is replied
HandlerThrow ==
    /\ Active
    /\ guest = "running"
    /\ outputEvent' = [NoEvent EXCEPT !.action = "error", !.error = GuestError,
                                       !.storage = ErrorStorage(EmptyObject, EmptyObject)]
    /\ emitted' = emitted + 1
    /\ guest' = "replied"
    /\ UNCHANGED <<supVars, now, guestCode, onRun, inputEvent, exitVia>>
    /\ UNCHANGED libVars

\* _exit(): Deno.exit(0) after the connection is released
GuestExit ==
    /\ Active
    /\ guest \in {"running", "replied"}
    /\ ExitScheduled(guest)
    /\ guest' = "exited"
    /\ guestCode' = 0
    /\ exitVia' = "scheduled"
    /\ UNCHANGED <<supVars, now, onRun, inputEvent, outputEvent, emitted>>
    /\ UNCHANGED libVars

\* _onRpcRateLimit(): the RPC proxy answered 429, _exit(250, true)
OnRpcRateLimit ==
    /\ Active
    /\ guest \in {"running", "replied"}
    /\ guest' = "exited"
    /\ guestCode' = 250
    /\ exitVia' = "rateLimit"
    /\ UNCHANGED <<supVars, now, onRun, inputEvent, outputEvent, emitted>>
    /\ UNCHANGED libVars

\* the guest process ends by itself or is killed by the system
GuestCrash ==
    /\ Active
    /\ guest \in {"listening", "running", "replied"}
    /\ guest' = "exited"
    /\ \E c \in CrashCodes : guestCode' = c
    /\ exitVia' = "crash"
    /\ UNCHANGED <<supVars, now, onRun, inputEvent, outputEvent, emitted>>
    /\ UNCHANGED libVars

Next ==
    \/ Tick
    \/ Run
    \/ AllocPorts
    \/ AllocPortsFail
    \/ SandboxStart
    \/ SandboxStartFail
    \/ AllocRpcPort
    \/ AllocRpcPortFail
    \/ StartRpcProxy
    \/ StartRpcProxyFail
    \/ Connect
    \/ ConnectFail
    \/ ConnectEarlyExit
    \/ ProcessEnd
    \/ ExitHandler
    \/ GraceExpire
    \/ ExecTimeout
    \/ OutputEvent
    \/ ClientError
    \/ ClientErrorStop
    \/ ClientErrorStopFail
    \/ MonitorMemoryUsage
    \/ FinallyStop
    \/ FinallyStopFail
    \/ ExitHook
    \/ GuestStart
    \/ HandlerReturn
    \/ HandlerThrow
    \/ GuestExit
    \/ OnRpcRateLimit
    \/ GuestCrash

Spec == Init /\ [][Next]_vars

\* run() and the guest with the scheduling the event loop guarantees: time
\* passes up to the expiry of a timer that is set, a timer that is due
\* fires, and a stop() that was called runs on.  Nothing makes the guest
\* reply or the sandbox signal its exit.
LiveSpec ==
    /\ Spec
    /\ WF_vars(Tick)
    /\ WF_vars(ExecTimeout)
    /\ WF_vars(GraceExpire)
    /\ WF_vars(ClientErrorStop)
    /\ WF_vars(FinallyStop)

\* =========================================================== guest storage
\* _onFunctionEvent with the storage facade of _run, for every storage a
\* start message can carry and every sequence of at most MaxCalls calls of
\* storage.set and storage.delete.
StorageInit ==
    /\ RunIdle /\ ValidatorIdle /\ ArgsIdle /\ ReportIdle /\ CountersIdle
    /\ \E incoming \in IncomingStorages :
          /\ preStorage = incoming
          /\ ctxStorage = incoming
    /\ prevStorage = EmptyObject
    /\ handlerPc = "idle"
    /\ handlerCalls = 0
    /\ storageReply = NoReply

\* the catch arm of _onFunctionEvent
ReplyError(prev, ctx) ==
    /\ storageReply' = [action |-> "error", storage |-> ErrorStorage(prev, ctx)]
    /\ handlerPc' = "replied"

\* case "start": the snapshot is taken and _run is called; _run throws at
\* once when no handler is registered
OnStartEvent ==
    /\ handlerPc = "idle"
    /\ prevStorage' = ShallowCopy(ctxStorage)
    /\ \E registered \in BOOLEAN :
          IF registered
          THEN handlerPc' = "running" /\ UNCHANGED storageReply
          ELSE ReplyError(prevStorage', ctxStorage)
    /\ UNCHANGED <<preStorage, ctxStorage, handlerCalls>>
    /\ UNCHANGED <<runVars, validatorVars, argsVars, reportVars, counterVars>>

\* the handler calls storage.set(key, value): for a value that is no string
\* set throws, and the handler catches the error and goes on, or does not
\* and _run throws
StorageSet ==
    /\ handlerPc = "running"
    /\ handlerCalls < MaxCalls
    /\ handlerCalls' = handlerCalls + 1
    /\ \E key \in Keys, value \in StorageValues \cup {NonString} :
          IF TypeofString(value)
          THEN /\ ctxStorage' = set(ctxStorage, key, value)
               /\ UNCHANGED <<handlerPc, storageReply>>
          ELSE /\ UNCHANGED ctxStorage
               /\ \E caught \in BOOLEAN :
                     IF caught
                     THEN UNCHANGED <<handlerPc, storageReply>>
                     ELSE ReplyError(prevStorage, ctxStorage)
    /\ UNCHANGED <<preStorage, prevStorage>>
    /\ UNCHANGED <<runVars, validatorVars, argsVars, reportVars, counterVars>>

\* the handler calls storage.delete(key)
StorageDelete ==
    /\ handlerPc = "running"
    /\ handlerCalls < MaxCalls
    /\ \E key \in Keys : ctxStorage' = delete(ctxStorage, key)
    /\ handlerCalls' = handlerCalls + 1
    /\ UNCHANGED <<preStorage, prevStorage, handlerPc, storageReply>>
    /\ UNCHANGED <<runVars, validatorVars, argsVars, reportVars, counterVars>>

\* the handler returns: the difference is computed and the result event is
\* replied
RunReturns ==
    /\ handlerPc = "running"
    /\ storageReply' = [action |-> "result", storage |-> ResultStorage(prevStorage, ctxStorage)]
    /\ handlerPc' = "replied"
    /\ UNCHANGED <<preStorage, prevStorage, ctxStorage, handlerCalls>>
    /\ UNCHANGED <<runVars, validatorVars, argsVars, reportVars, counterVars>>

\* the handler throws
RunThrows ==
    /\ handlerPc = "running"
    /\ ReplyError(prevStorage, ctxStorage)
    /\ UNCHANGED <<preStorage, prevStorage, ctxStorage, handlerCalls>>
    /\ UNCHANGED <<runVars, validatorVars, argsVars, reportVars, counterVars>>

StorageNext ==
    \/ OnStartEvent
    \/ StorageSet
    \/ StorageDelete
    \/ RunReturns
    \/ RunThrows

StorageSpec == StorageInit /\ [][StorageNext]_vars

\* ======================================================= run(): the report
\* run() from the settled promise of _runInSandbox to the report it returns,
\* for resolved and rejected promises, every reading of the counters of the
\* HTTP proxy up to MaxStat and limits of one and two units.
ReportStorages ==
    {ResultStorage(prev, ctx) :
        prev \in {EmptyObject, set(EmptyObject, "k1", "a")},
        ctx \in [Keys -> StorageValues \cup {Missing, Undefined}]}

SettledPromises ==
    {[state |-> "resolved", result |-> res, storage |-> st, error |-> NoError] :
        res \in HandlerResults, st \in ReportStorages}
    \cup {[NoPromise EXCEPT !.state = "rejected", !.error = err] :
            err \in {GuestError,
                     PlainError("exitedWithoutResult"),
                     Web3FunctionRuntimeError("duration", NotEnded),
                     Web3FunctionRuntimeError("memory", 137),
                     Web3FunctionRuntimeError("rpcRequest", 250)}}

ReportOptions ==
    {[Options("thread", GRACE_DELAY) EXCEPT !.requestLimit = requests, !.downloadLimit = down * KB,
                                            !.uploadLimit = up * KB, !.storageLimit = stored] :
        requests \in 1..2, down \in 1..2, up \in 1..2, stored \in 1..2}

ReportInit ==
    /\ RunIdle /\ StorageIdle /\ ValidatorIdle /\ ArgsIdle /\ CountersIdle
    /\ rPromise \in SettledPromises
    /\ rNetwork \in NetworkStats
    /\ rOptions \in ReportOptions
    /\ rReport = NoReport

\* run() after `await this._runInSandbox(...)`: the try block, the catch arm
\* and the report
AssembleReport ==
    /\ ~rReport.returned
    /\ \E v \in Versions :
          rReport' = BuildReport(TryResult(rPromise, v), NewRunner, 0, rNetwork, rOptions)
    /\ UNCHANGED <<rPromise, rNetwork, rOptions>>
    /\ UNCHANGED <<runVars, storageVars, validatorVars, argsVars, counterVars>>

ReportNext == AssembleReport

ReportSpec == ReportInit /\ [][ReportNext]_vars

\* ======================================= run(): stop() and the counters
\* run() from the end of its try block to the report, while the guest
\* process writes log lines and sends HTTP requests and RPC calls through
\* the proxies, each at most MaxTraffic times.
\*
\* the runner where _runInSandbox threw or began to wait for the events:
\* before the HTTP proxy exists, with sandbox.start() rejected, before the
\* RPC proxy exists, with proxyProvider.start() rejected, and connected
StartedRunners ==
    {[NewRunner EXCEPT !._sandbox = "created"],
     [NewRunner EXCEPT !._sandbox = "created", !._httpProxy = "started"],
     [NewRunner EXCEPT !._sandbox = "running", !._httpProxy = "started",
                       !._exitRemover = "installed"],
     [NewRunner EXCEPT !._sandbox = "running", !._httpProxy = "started",
                       !._exitRemover = "installed", !._proxyProvider = "created"],
     [NewRunner EXCEPT !._sandbox = "running", !._httpProxy = "started",
                       !._exitRemover = "installed", !._proxyProvider = "started",
                       !._memoryIntervalId = "set", !._client = "connected",
                       !._execTimeoutId = "set"]}

CountersInit ==
    /\ RunIdle /\ StorageIdle /\ ValidatorIdle /\ ArgsIdle /\ ReportIdle
    /\ cRunner \in StartedRunners
    /\ cPc = IF cRunner._client = "connected" THEN "waiting" ELSE "finally"
    /\ cGuest = (cRunner._sandbox = "running")
    /\ cCounters = ZeroCounters
    /\ cReport = NoCounterReport

\* the guest writes a line that the sandbox collects
GuestLog ==
    /\ cGuest
    /\ cRunner._sandbox = "running"
    /\ cCounters.logs < MaxTraffic
    /\ cCounters' = [cCounters EXCEPT !.logs = @ + 1]
    /\ UNCHANGED <<cPc, cRunner, cGuest, cReport>>
    /\ UNCHANGED <<runVars, storageVars, validatorVars, argsVars, reportVars>>

\* the HTTP proxy accepts a request of the guest: it throttles it, or it
\* forwards it and receives one KB
GuestHttpRequest ==
    /\ cGuest
    /\ cRunner._httpProxy = "started"
    /\ cCounters.network.nbRequests < MaxTraffic
    /\ \E throttled \in BOOLEAN :
          cCounters' = [cCounters EXCEPT
                           !.network.nbRequests = @ + 1,
                           !.network.nbThrottled = IF throttled THEN @ + 1 ELSE @,
                           !.network.download = IF throttled THEN @ ELSE @ + 1]
    /\ UNCHANGED <<cPc, cRunner, cGuest, cReport>>
    /\ UNCHANGED <<runVars, storageVars, validatorVars, argsVars, reportVars>>

\* the RPC proxy accepts a call of the guest: it throttles it or forwards it
GuestRpcCall ==
    /\ cGuest
    /\ cRunner._proxyProvider = "started"
    /\ cCounters.rpcCalls.total < MaxTraffic
    /\ \E throttled \in BOOLEAN :
          cCounters' = [cCounters EXCEPT
                           !.rpcCalls.total = @ + 1,
                           !.rpcCalls.throttled = IF throttled THEN @ + 1 ELSE @]
    /\ UNCHANGED <<cPc, cRunner, cGuest, cReport>>
    /\ UNCHANGED <<runVars, storageVars, validatorVars, argsVars, reportVars>>

\* the guest process ends by itself
GuestEnds ==
    /\ cGuest
    /\ cGuest' = FALSE
    /\ UNCHANGED <<cPc, cRunner, cCounters, cReport>>
    /\ UNCHANGED <<runVars, storageVars, validatorVars, argsVars, reportVars>>

\* client.on("error"): stop() runs to its end while run() waits
CountersClientErrorStop ==
    /\ cPc = "waiting"
    /\ cRunner._client = "connected"
    /\ cRunner' = stop(cRunner)
    /\ cGuest' = FALSE
    /\ UNCHANGED <<cPc, cCounters, cReport>>
    /\ UNCHANGED <<runVars, storageVars, validatorVars, argsVars, reportVars>>

\* the promise of _runInSandbox settles: the try block or the catch arm
\* runs and the finally arm calls stop(), which awaits this._sandbox.stop()
CountersSettle ==
    /\ cPc = "waiting"
    /\ cPc' = "finally"
    /\ UNCHANGED <<cRunner, cGuest, cCounters, cReport>>
    /\ UNCHANGED <<runVars, storageVars, validatorVars, argsVars, reportVars>>

\* this._sandbox.stop() resolves, the guest process is killed and stop()
\* runs to its end
CountersStop ==
    /\ cPc = "finally"
    /\ cRunner' = stop(cRunner)
    /\ cGuest' = FALSE
    /\ cPc' = "stopped"
    /\ UNCHANGED <<cCounters, cReport>>
    /\ UNCHANGED <<runVars, storageVars, validatorVars, argsVars, reportVars>>

\* a finally arm that does not await stop()
StopAwaited_not(p) == p \in {"finally", "stopped"}

\* run() goes on after the finally arm when `await this.stop()` has returned
StopAwaited(p) == p = "stopped"

\* this._sandbox?.getLogs() ?? []
ReadLogs(r, counters) == IF r._sandbox = "undefined" THEN 0 ELSE counters.logs

\* this._proxyProvider?.getNbRpcCalls() ?? { total: 0, throttled: 0 }
ReadRpcCalls(r, counters) ==
    IF r._proxyProvider = "undefined" THEN ZeroRpcCalls ELSE counters.rpcCalls

\* this._httpProxy?.getStats() ?? { nbRequests: 0, ... }
ReadNetwork(r, counters) ==
    IF r._httpProxy = "undefined" THEN ZeroStats ELSE counters.network

\* run() reads logs, rpcCalls and networkStats and returns the report
CountersReport ==
    /\ StopAwaited(cPc)
    /\ cReport' = [returned |-> TRUE,
                   logs |-> ReadLogs(cRunner, cCounters),
                   rpcCalls |-> ReadRpcCalls(cRunner, cCounters),
                   network |-> ReadNetwork(cRunner, cCounters)]
    /\ cPc' = "returned"
    /\ UNCHANGED <<cRunner, cGuest, cCounters>>
    /\ UNCHANGED <<runVars, storageVars, validatorVars, argsVars, reportVars>>

CountersNext ==
    \/ GuestLog
    \/ GuestHttpRequest
    \/ GuestRpcCall
    \/ GuestEnds
    \/ CountersClientErrorStop
    \/ CountersSettle
    \/ CountersStop
    \/ CountersReport

CountersSpec == CountersInit /\ [][CountersNext]_vars

\* ========================================== validateUserArgs, parseUserArgs
\* One key of a schema: validateUserArgs on a typed value, then
\* parseUserArgs on the JSON text of the value, for booleans, numbers (NaN
\* and Infinity among them), strings, null, undefined and arrays of at most MaxArgLen of
\* these.
ArgScalars == {JBool(TRUE), JBool(FALSE), JNum(0), JNum(12), JNaN, JInfinity, JStr(<<>>), JStr(<<"a">>), JNull}
ArgValues ==
    ArgScalars \cup {JAbsent}
        \cup {JArr(a) : a \in UNION {[1..n -> ArgScalars] : n \in 0..MaxArgLen}}

ArgsInit ==
    /\ RunIdle /\ StorageIdle /\ ValidatorIdle /\ ReportIdle /\ CountersIdle
    /\ argType \in SchemaTypes
    /\ argValue \in ArgValues
    /\ argOutcome = NoArgOutcome

\* validateUserArgs(userArgsSchema, userArgs)
ValidateUserArgs ==
    /\ argOutcome.validated = "none"
    /\ argOutcome' = [argOutcome EXCEPT !.validated = validateUserArgs(argType, argValue)]
    /\ UNCHANGED <<argType, argValue>>
    /\ UNCHANGED <<runVars, storageVars, validatorVars, reportVars, counterVars>>

\* parseUserArgs(userArgsSchema, { key: JSON.stringify(userArgs[key]) }) for
\* user args that validateUserArgs accepted
ParseUserArgs ==
    /\ argOutcome.validated = "returns"
    /\ argOutcome.parsed = "none"
    /\ LET out == parseUserArgs(argType, JSONstringify(argValue))
       IN argOutcome' = [argOutcome EXCEPT !.parsed = out.parsed, !.typed = out.typed]
    /\ UNCHANGED <<argType, argValue>>
    /\ UNCHANGED <<runVars, storageVars, validatorVars, reportVars, counterVars>>

ArgsNext ==
    \/ ValidateUserArgs
    \/ ParseUserArgs

ArgsSpec == ArgsInit /\ [][ArgsNext]_vars

\* ========================================================= _validateResult
\* One call of _validateResult, for both versions and for results with and
\* without canExec and callData, callData being null, a number, a string or
\* an array of at most MaxEntries entries.
ToSamples == {JAbsent, JStr(AddressOne)}
DataSamples == {JAbsent, JStr(HexData(8)), JStr(HexData(7))}
ValueSamples == {JAbsent, JStr(<<>>), JStr(<<"1", "2">>), JStr(<<"1", "a">>), JNum(7)}
EntrySamples ==
    {JNull} \cup {JObj(to, data, value) : to \in ToSamples, data \in DataSamples, value \in ValueSamples}
CallDataSamples ==
    {JAbsent, JNull, JNum(7), JStr(HexData(8)), JStr(HexData(7)), JStr([i \in 1..10 |-> "1"])}
        \cup {JArr(a) : a \in UNION {[1..n -> EntrySamples] : n \in 0..MaxEntries}}
CanExecSamples == {JAbsent, JBool(TRUE), JBool(FALSE)}
ResultSamples == [canExec : CanExecSamples, callData : CallDataSamples]

ValidatorInit ==
    /\ RunIdle /\ StorageIdle /\ ArgsIdle /\ ReportIdle /\ CountersIdle
    /\ vVersion \in Versions
    /\ vResult \in ResultSamples
    /\ vOutcome = NotCalled

\* this._validateResult(version, data.result)
Validate ==
    /\ vOutcome = NotCalled
    /\ vOutcome' = _validateResult(vVersion, vResult)
    /\ UNCHANGED <<vVersion, vResult>>
    /\ UNCHANGED <<runVars, storageVars, argsVars, reportVars, counterVars>>

ValidatorNext == Validate

ValidatorSpec == ValidatorInit /\ [][ValidatorNext]_vars


\* ================================================================ properties
\* position of a signal in the order of occurrence, 0 when it has not occurred
Pos(sig) ==
    IF \E i \in DOMAIN signals : signals[i] = sig
    THEN CHOOSE i \in DOMAIN signals : signals[i] = sig
    ELSE 0

\* signal a has occurred, and b has not occurred before it
Before(a, b) == Pos(a) > 0 /\ (Pos(b) = 0 \/ Pos(a) < Pos(b))

\* the first signal of the event race that occurred
FirstSignal == IF signals = <<>> THEN "none" ELSE Head(signals)

\* the exit handler's verdict after the grace delay is what settled the race:
\* no result or error event was received and the timeout did not fire before
ExitSettled ==
    /\ Before("graceEnd", "result")
    /\ Before("graceEnd", "error")
    /\ Before("graceEnd", "timeout")

\* the signal that settled the race: a result, an error or the timeout, or
\* the end of the grace delay when no result or error had been received
SettlingSignal ==
    LET settles(i) ==
            \/ signals[i] \in {"result", "error", "timeout"}
            \/ /\ signals[i] = "graceEnd"
               /\ \A j \in 1..(i - 1) : signals[j] \notin {"result", "error"}
    IN IF \E i \in DOMAIN signals : settles(i)
       THEN signals[CHOOSE i \in DOMAIN signals :
                        settles(i) /\ \A j \in 1..(i - 1) : ~settles(j)]
       ELSE "none"

\* the promise of _runInSandbox is the one signal sig settles it to
DecidedBy(sig) ==
    CASE sig = "result" -> promise.state = "resolved"
      [] sig = "error" -> promise.state = "rejected" /\ promise.error = GuestError
      [] sig = "timeout" ->
            promise.state = "rejected"
            /\ promise.error = Web3FunctionRuntimeError("duration", NotEnded)
      [] sig \in {"exit", "graceEnd"} ->
            promise.state = "rejected"
            /\ promise.error = ExitRejection(procEnd, options, runner._memory)
      [] OTHER -> TRUE

FatalFlags == {"duration", "memory", "rpcRequest"}

\* ---------------------------------------------------------------- C1
\* C1 as stated: when run returns its report, stop() has been invoked
\* exactly once since run entry.
C1_StopExactlyOnce == report.returned => stopCalls = 1

\* C1 amended: when run returns its report, stop() has been invoked once by
\* the finally arm of run and once more for every client error event that
\* was handled; it has been invoked exactly once only when no client error
\* event occurred.
C1_StopOncePlusClientErrors ==
    report.returned => (stopCalls = 1 + clientErrors /\ stopCalls >= 1)

C1_Witness == report.returned /\ clientErrors >= 1 /\ stopCalls = 1 + clientErrors

\* ---------------------------------------------------------------- C2
TornDown(r) ==
    /\ r._sandbox = "stopped"
    /\ r._client \in {"undefined", "ended"}
    /\ r._proxyProvider \in {"undefined", "stopped"}
    /\ r._httpProxy \in {"undefined", "stopped"}
    /\ r._execTimeoutId \in {"undefined", "cleared"}
    /\ r._memoryIntervalId \in {"undefined", "cleared"}
    /\ r._exitRemover \in {"noop", "removed"}

\* C2: when run returns its report, whatever the outcome, the sandbox is
\* stopped and the guest process has ended, the client is ended, both
\* proxies are stopped, both timers are cleared and the exit hook is removed.
C2_AllTornDown ==
    report.returned => (TornDown(runner) /\ guest \in {"none", "exited"})

C2_Witness ==
    /\ report.returned
    /\ report.success
    /\ runner._client = "ended"
    /\ runner._httpProxy = "stopped"
    /\ runner._proxyProvider = "stopped"
    /\ runner._execTimeoutId = "cleared"

\* ---------------------------------------------------------------- C3
\* C3 as stated: stop() never propagates the failure of one of its steps, so
\* run never rejects: it returns a report.
C3_StopNeverRejects == pc # "rejected"

\* ---------------------------------------------------------------- C4
Total(r) ==
    /\ r._sandbox # "TypeError"
    /\ r._client # "TypeError"
    /\ r._proxyProvider # "TypeError"
    /\ r._httpProxy # "TypeError"

C5_ExactlyOneEvent ==
    (guest = "exited" /\ inputEvent = "delivered" /\ exitVia \in {"scheduled", "rateLimit"})
        => emitted = 1

\* C5 amended: the guest emits at most one terminal event, only after it
\* received the start message and before its process ends; a guest that ends
\* by the scheduled exit of _onFunctionEvent has emitted exactly one.  (A
\* guest that ends on an RPC rate limit while the handler runs has emitted
\* none.)
C5_AtMostOneEvent ==
    /\ emitted <= 1
    /\ emitted = 1 => inputEvent = "delivered"
    /\ exitVia = "scheduled" => emitted = 1
    /\ (outputEvent.action # "none") => emitted = 1

C5_Witness == guest = "exited" /\ exitVia = "scheduled" /\ guestCode = 0 /\ emitted = 1

\* ---------------------------------------------------------------- C6
\* C6 as stated: a run whose first signal is the exit of the guest with code
\* 250 on an RPC rate limit reports success = false and
\* throttled.rpcRequest = true, whatever the timing of the execution timeout.
C6_Exit250Throttled ==
    (report.returned /\ procEnd = 250 /\ exitVia = "rateLimit" /\ FirstSignal = "exit")
        => (~report.success /\ "rpcRequest" \in report.throttled)

\* C6 amended: an exit of the guest with code 250 is reported as success =
\* false with throttled.rpcRequest = true, for both runtimes and whatever the
\* sampled memory, when the verdict of the exit handler settles the race: no
\* result or error event is received before the end of the grace delay and
\* the execution timeout does not fire before it.
C6_Exit250WhenExitSettles ==
    (report.returned /\ procEnd = 250 /\ ExitSettled)
        => /\ ~report.success
           /\ report.throttled \cap FatalFlags = {"rpcRequest"}
           /\ report.error = Web3FunctionRuntimeError("rpcRequest", 250)

C6_Witness ==
    /\ report.returned
    /\ procEnd = 250
    /\ ExitSettled
    /\ options.runtime = "thread"
    /\ runner._memory >= options.memory
    /\ "rpcRequest" \in report.throttled

\* ---------------------------------------------------------------- C7
\* C7: when the execution timeout is the first signal of the race (no result
\* or error event was received and no exit was signalled before it), the
\* report has success = false, throttled.duration = true and a duration of at
\* least options.timeout; and as long as the race is open and the guest
\* process lives, the execution timeout stays set.
C7_TimeoutReport ==
    /\ (report.returned /\ FirstSignal = "timeout")
          => /\ ~report.success
             /\ "duration" \in report.throttled
             /\ report.duration >= options.timeout
    /\ (promise.state = "pending" /\ guest \in {"listening", "running", "replied"})
          => runner._execTimeoutId = "set"

C7_Witness ==
    /\ report.returned
    /\ FirstSignal = "timeout"
    /\ options.timeout = MaxTimeout
    /\ report.duration >= options.timeout
    /\ "duration" \in report.throttled

\* ---------------------------------------------------------------- C8
\* a result event was received after the exit was signalled, before the end
\* of the grace delay and before the execution timeout fired
ResultInGrace ==
    /\ Before("exit", "result")
    /\ Before("result", "graceEnd")
    /\ Before("result", "timeout")

\* C8: when the exit of the sandbox is signalled before the result event and
\* the result event is received in the grace delay, before the execution
\* timeout fires, the race is resolved with that result; when the result is
\* valid the report has success = true, that result, no error and no fatal
\* throttle flag, whatever the exit code.
C8_GraceResultWins ==
    (report.returned /\ ResultInGrace)
        => /\ promise.state = "resolved"
           /\ (\A v \in Versions : _validateResult(v, promise.result) = Returns)
                 => /\ report.success
                    /\ report.result = promise.result
                    /\ report.error = NoError
                    /\ report.throttled \cap FatalFlags = {}

C8_Witness ==
    /\ report.returned
    /\ ResultInGrace
    /\ Pos("graceEnd") > 0
    /\ procEnd \notin {NotEnded, 0}
    /\ report.success

\* ---------------------------------------------------------------- C9
\* C9 as stated: when the verdict of the exit handler settles the race, the
\* report has success = false and throttled.memory = true for the container
\* runtime with signal 137 and for the thread runtime with any exit code when
\* the sampled memory has reached options.memory.
C9_MemoryThrottleAnyCode ==
    (/\ report.returned
     /\ ExitSettled
     /\ \/ options.runtime = "docker" /\ procEnd = 137
        \/ options.runtime = "thread" /\ runner._memory >= options.memory)
        => (~report.success /\ "memory" \in report.throttled)

\* C9 amended: when the verdict of the exit handler settles the race, the
\* report has success = false and throttled.memory = true for the container
\* runtime with signal 137 and for the thread runtime with an exit code other
\* than 0 and 250 when the sampled memory has reached options.memory; exit
\* code 0 and exit code 250 are never reported as a memory throttle.
C9_MemoryThrottle ==
    /\ (/\ report.returned
        /\ ExitSettled
        /\ \/ options.runtime = "docker" /\ procEnd = 137
           \/ /\ options.runtime = "thread"
              /\ runner._memory >= options.memory
              /\ procEnd \notin {0, 250})
          => (~report.success /\ report.throttled \cap FatalFlags = {"memory"})
    /\ (report.returned /\ ExitSettled /\ procEnd \in {0, 250})
          => "memory" \notin report.throttled

C9_Witness ==
    /\ report.returned
    /\ ExitSettled
    /\ options.runtime = "thread"
    /\ runner._memory >= options.memory
    /\ procEnd = 1
    /\ "memory" \in report.throttled

\* ---------------------------------------------------------------- C10
\* the report is the one run() builds from the settled promise
ReportOfPromise ==
    /\ \E v \in Versions : exec = TryResult(promise, v)
    /\ report = BuildReport(exec, runner, report.duration, report.network, options)

\* C10 as stated: the first signal of the race that occurred decides the
\* report.
C10_FirstSignalDecides ==
    (report.returned /\ signals # <<>>)
        => (DecidedBy(FirstSignal) /\ ReportOfPromise)

\* C10 amended: the first signal that settles the race decides the report,
\* where the exit of the sandbox settles it only at the end of the grace
\* delay and only when no result or error event was received until then; a
\* signal that occurs after the race is settled changes neither the promise
\* nor the outcome of run.
C10_SettlingSignalDecides ==
    [][/\ promise.state \in {"resolved", "rejected"}
            => (promise' = promise /\ exec' = exec)
       /\ (report'.returned /\ signals' # <<>>)
            => (DecidedBy(SettlingSignal) /\ ReportOfPromise)'
       /\ (promise.state = "pending" /\ promise'.state # "pending")
            => (DecidedBy(SettlingSignal) /\ SettlingSignal = signals[Len(signals)])'
      ]_vars

C10_Witness ==
    /\ report.returned
    /\ report.success
    /\ FirstSignal = "result"
    /\ Pos("timeout") > 0
    /\ Pos("exit") > 0

\* ---------------------------------------------------------------- C11
\* the object that results from applying a difference to a storage: a string
\* sets the key, null deletes it
ApplyDiff(storage, difference) ==
    [k \in Keys |->
        IF difference[k] = Null THEN Missing
        ELSE IF difference[k] # Missing THEN difference[k]
        ELSE storage[k]]

\* C11: in every result reply of the guest, storage.state is "updated" iff
\* storage.diff has a key, every value of the diff is a string or null, and
\* applying the diff to the storage the start message carried yields the
\* storage of the reply.
C11_DiffYieldsPost ==
    storageReply.action = "result"
        => /\ storageReply.storage.state \in {"last", "updated"}
           /\ storageReply.storage.state = "updated"
                 <=> OwnKeys(storageReply.storage.diff) # {}
           /\ \A k \in Keys :
                 storageReply.storage.diff[k] \in StorageValues \cup {Null, Missing}
           /\ ApplyDiff(preStorage, storageReply.storage.diff)
                 = storageReply.storage.storage
           /\ storageReply.storage.storage = JsonObject(ctxStorage)

C11_Witness ==
    /\ storageReply.action = "result"
    /\ handlerCalls = MaxCalls
    /\ \E k \in Keys : storageReply.storage.diff[k] = Null
    /\ \E k \in Keys : storageReply.storage.diff[k] \in StorageValues

\* ---------------------------------------------------------------- C12
\* C12: every error reply of the guest, whether the handler threw, no
\* handler was registered or storage.set threw for a value that is no string,
\* carries state "last", the storage the start message carried and an empty
\* diff, whatever the handler set or deleted before.
C12_ErrorKeepsPre ==
    storageReply.action = "error"
        => /\ storageReply.storage.state = "last"
           /\ storageReply.storage.storage = preStorage
           /\ OwnKeys(storageReply.storage.diff) = {}

C12_Witness ==
    /\ storageReply.action = "error"
    /\ handlerCalls = MaxCalls
    /\ JsonObject(ctxStorage) # preStorage
    /\ storageReply.storage.storage = preStorage

\* ---------------------------------------------------------------- C13
\* C13: for both versions, the validator accepts every result that has the
\* key canExec with value false, whether callData is absent, well-formed or
\* malformed.
C13_CanExecFalseAccepted ==
    (vOutcome # NotCalled /\ vResult.canExec = JBool(FALSE)) => vOutcome = Returns

C13_Witness ==
    /\ vOutcome = Returns
    /\ vResult.canExec = JBool(FALSE)
    /\ vResult.callData = JNull
    /\ vVersion = "V2"

\* ---------------------------------------------------------------- C14
\* a non-empty string of decimal digits
DecimalDigits(value) ==
    /\ value.t = "string"
    /\ Len(value.v) > 0
    /\ \A i \in 1..Len(value.v) : value.v[i] \in Digits

\* C14 as stated: for a V2 result with canExec = true, the validator accepts
\* the result only if the value of every entry of callData is absent or a
\* non-empty string of decimal digits.
C14_ValueDigitsOnly ==
    (vOutcome = Returns /\ vVersion = "V2" /\ vResult.canExec = JBool(TRUE))
        => \A i \in 1..Len(vResult.callData.v) :
              LET value == vResult.callData.v[i].v.value
              IN value = JAbsent \/ DecimalDigits(value)

\* ---------------------------------------------------------------- C15
\* a string of length >= 10 that starts with 0x
WellFormedData(data) ==
    /\ data.t = "string"
    /\ Len(data.v) >= 10
    /\ SubSeq(data.v, 1, 2) = <<"0", "x">>

\* the result violates the schema otherwise than by the value of an entry:
\* canExec is missing; or canExec is true and callData is missing, or is for
\* V1 no well-formed data string, or is for V2 no array or has an entry that
\* is no object or whose to is no address or whose data is not well-formed
ViolatesSchema(version, result) ==
    \/ result.canExec = JAbsent
    \/ /\ result.canExec = JBool(TRUE)
       /\ \/ result.callData = JAbsent
          \/ version = "V1" /\ ~WellFormedData(result.callData)
          \/ /\ version = "V2"
             /\ \/ result.callData.t # "array"
                \/ \E i \in 1..Len(result.callData.v) :
                      LET entry == result.callData.v[i]
                      IN \/ entry.t # "object"
                         \/ ~isAddress(entry.v.to)
                         \/ ~WellFormedData(entry.v.data)

\* C15 as stated: every result that violates the schema makes the validator
\* throw the validation error that carries the offending result, never an
\* error of another kind.
C15_ViolationRaisesValidationError ==
    (vOutcome # NotCalled /\ ViolatesSchema(vVersion, vResult))
        => (vOutcome.kind = "Error" /\ vOutcome.instead = vResult)

\* ---------------------------------------------------------------- C16
\* C16: when the result event settles the race and its result fails
\* validation for every version, the report of run has success = false, the
\* validation error as error, no result, no storage although the event
\* carried one, and none of the fatal throttle flags.
C16_InvalidResultFails ==
    (/\ report.returned
     /\ promise.state = "resolved"
     /\ \A v \in Versions : _validateResult(v, promise.result) # Returns)
        => /\ ~report.success
           /\ report.error = PlainError("validation")
           /\ report.result = NoResult
           /\ report.storage = NoStorageWithSize
           /\ report.throttled \cap FatalFlags = {}

C16_Witness ==
    /\ report.returned
    /\ promise.state = "resolved"
    /\ promise.result.canExec = JBool(TRUE)
    /\ promise.storage.state = "updated"
    /\ report.error = PlainError("validation")

\* ---------------------------------------------------------------- C17
\* C17: in every report, of a success or of a failure,
\* throttled.networkRequest is true iff nbThrottled > 0 and nbRequests >=
\* requestLimit, throttled.download iff nbThrottled > 0 and download >=
\* downloadLimit / 1024, throttled.upload iff nbThrottled > 0 and upload >=
\* uploadLimit / 1024, for the counters the report carries.
C17_NetworkFlags ==
    rReport.returned
        => /\ rReport.network = rNetwork
           /\ "networkRequest" \in rReport.throttled
                 <=> (rNetwork.nbThrottled > 0 /\ rNetwork.nbRequests >= rOptions.requestLimit)
           /\ "download" \in rReport.throttled
                 <=> (rNetwork.nbThrottled > 0 /\ rNetwork.download * KB >= rOptions.downloadLimit)
           /\ "upload" \in rReport.throttled
                 <=> (rNetwork.nbThrottled > 0 /\ rNetwork.upload * KB >= rOptions.uploadLimit)

C17_Witness ==
    /\ rReport.returned
    /\ ~rReport.success
    /\ "download" \in rReport.throttled
    /\ "networkRequest" \notin rReport.throttled
    /\ rNetwork.nbRequests > 0

\* ---------------------------------------------------------------- C18
\* C18 as stated: for every schema type and every value validateUserArgs
\* accepts for it, parseUserArgs on the JSON text of the value returns the
\* value.
C18_ParseStringifyIdentity ==
    (argOutcome.validated = "returns" /\ argOutcome.parsed # "none")
        => (argOutcome.parsed = "returns" /\ argOutcome.typed = argValue)

\* ---------------------------------------------------------------- C19
\* run() returned after sandbox.start() rejected: the HTTP proxy was started
\* and the exit hook was never attached
SandboxStartFailed ==
    report.returned /\ runner._httpProxy = "stopped" /\ runner._exitRemover = "noop"

\* run() returned after client.connect() rejected: the client was created
\* and the promise of the event race never was
ConnectFailed ==
    report.returned /\ runner._client = "ended" /\ promise.state = "none"

\* C19 as stated: every error raised on the supervisor side during a run is
\* the error of the returned report: the failure of sandbox.start(), the
\* failure of client.connect(), the validation error of a received result,
\* and the error of a client error event handled after the start message,
\* here one handled while the race was open: its stop() killed the guest and
\* the exit of the guest was the first signal of the race.
C19_SupervisorErrorsSurface ==
    /\ SandboxStartFailed => report.error = PlainError("startSandbox")
    /\ ConnectFailed => report.error = PlainError("startupTimeout")
    /\ (/\ report.returned
        /\ promise.state = "resolved"
        /\ \A v \in Versions : _validateResult(v, promise.result) # Returns)
          => report.error = PlainError("validation")
    /\ (report.returned /\ clientErrors > 0 /\ exitVia = "killed" /\ FirstSignal = "exit")
          => (~report.success /\ report.error = PlainError("clientError"))

\* ---------------------------------------------------------------- C20
\* C20: throttled.storage is true exactly in the report of a successful run
\* whose storage has state "updated" and a size greater than
\* options.storageLimit; that report has success = true, the result and the
\* storage; the flag is not set in a failure report nor for state "last".
C20_StorageFlag ==
    rReport.returned
        => /\ "storage" \in rReport.throttled
                 <=> /\ rReport.success
                     /\ rPromise.storage.state = "updated"
                     /\ StorageSize(rPromise.storage) > rOptions.storageLimit
           /\ "storage" \in rReport.throttled
                 => /\ rReport.success
                    /\ rReport.error = NoError
                    /\ rReport.result = rPromise.result
                    /\ rReport.storage = StorageWithSize(rPromise.storage)

C20_Witness ==
    /\ rReport.returned
    /\ rReport.success
    /\ "storage" \in rReport.throttled
    /\ rReport.storage.state = "updated"
    /\ rReport.storage.size > rOptions.storageLimit

C22_CountersFinal ==
    cReport.returned
        => /\ ~cGuest
           /\ cRunner._sandbox # "running"
           /\ cRunner._httpProxy # "started"
           /\ cRunner._proxyProvider # "started"
           /\ cReport.logs = cCounters.logs
           /\ cReport.rpcCalls = cCounters.rpcCalls
           /\ cReport.network = cCounters.network

C22_Witness ==
    /\ cReport.returned
    /\ cReport.logs > 0
    /\ cReport.rpcCalls.total = MaxTraffic
    /\ cReport.rpcCalls.throttled > 0
    /\ cReport.network.nbRequests = MaxTraffic
    /\ cReport.network.download > 0

\* ---------------------------------------------------------------- C23
\* the exit is a quota case: code 250, the container runtime with signal
\* 137, the thread runtime with a sampled memory at or above the cap
QuotaExit ==
    \/ procEnd = 250
    \/ options.runtime = "docker" /\ procEnd = 137
    \/ options.runtime = "thread" /\ runner._memory >= options.memory

\* the report of an exit that is no quota case: a failure without a fatal
\* flag, with the error 'exited without returning result' for code 0 and
\* the error that carries the code for any other code
PlainExitReport ==
    /\ ~report.success
    /\ report.throttled \cap FatalFlags = {}
    /\ report.error = IF procEnd = 0
                      THEN PlainError("exitedWithoutResult")
                      ELSE [PlainError("exitCode") EXCEPT !.code = procEnd]

\* C23 as stated: a run in which the exit of the sandbox is the first signal,
\* no result or error event is received and the exit is no quota case
\* returns the report of a plain exit.
C23_PlainExitReport ==
    (/\ report.returned
     /\ FirstSignal = "exit"
     /\ Pos("result") = 0
     /\ Pos("error") = 0
     /\ ~QuotaExit)
        => PlainExitReport

\* C23 amended: when the verdict of the exit handler settles the race (no
\* result or error event is received before the end of the grace delay and
\* the execution timeout does not fire before it) and the exit is no quota
\* case, run returns the report of a plain exit.
C23_PlainExitWhenExitSettles ==
    (report.returned /\ ExitSettled /\ ~QuotaExit) => PlainExitReport

C23_Witness ==
    /\ report.returned
    /\ ExitSettled
    /\ ~QuotaExit
    /\ procEnd = 0
    /\ report.error = PlainError("exitedWithoutResult")

\* ---------------------------------------------------------------- C24
\* C24: in every report run returns, success is true iff result and storage
\* are present and error is absent, a failure has an error and neither
\* result nor storage, and a report with one of the flags duration, memory
\* and rpcRequest has success = false, also when the timeout or the exit of
\* the sandbox is signalled after the result was received.
C24_SuccessShape ==
    report.returned
        => /\ report.success
                 <=> /\ report.result # NoResult
                     /\ report.storage # NoStorageWithSize
                     /\ report.error = NoError
           /\ ~report.success
                 => /\ report.result = NoResult
                    /\ report.storage = NoStorageWithSize
                    /\ report.error # NoError
           /\ report.throttled \cap FatalFlags # {} => ~report.success

C24_Witness ==
    /\ report.returned
    /\ report.success
    /\ report.result # NoResult
    /\ Before("result", "timeout")
    /\ Pos("timeout") > 0
    /\ Pos("exit") > Pos("result")

\* ---------------------------------------------------------------- C25
\* C25 as stated: a result reply of a handler whose storage.set and
\* storage.delete calls left the storage with the keys and values the start
\* message carried has state "last" and an empty diff.
C25_UnchangedStorageIsLast ==
    (storageReply.action = "result" /\ JsonObject(ctxStorage) = preStorage)
        => /\ storageReply.storage.state = "last"
           /\ OwnKeys(storageReply.storage.diff) = {}

====
